---------------------------- MODULE Spec2Model ----------------------------
(***************************************************************************)
(* Model of spotpriceadvisor: the sliding-window search best_q15_window of *)
(* spotpriceadvisor_api.py and spotpriceadvisor-q15.py, the request        *)
(* handlers (advisor) built on it, the loading of the API module           *)
(* (configuration and token gate) and the hourly handler of                *)
(* spotpriceadvisor.py.                                                    *)
(*                                                                         *)
(* Prices are Decimal values in the source.  The model keeps them as       *)
(* integers in a fixed unit and keeps every average as an exact fraction   *)
(* <<numerator, denominator>>; comparisons are done by cross               *)
(* multiplication.  The 28-digit precision of the Decimal context is not   *)
(* modelled.                                                               *)
(***************************************************************************)
EXTENDS Integers, Sequences, FiniteSets, TLC

VARIABLES
    op,         \* the operation that has run ("init" or "idle" before any,
                \* "unloaded" before the module is imported)
    ts_prices,  \* argument of best_q15_window: sequence of <<ts, price>>
    window_q,   \* argument of best_q15_window / window length of a request
    result,     \* value returned by best_q15_window
    rows,       \* what the price source holds: sequence of <<ts, net price>>
    cfg,        \* module-level configuration of the API module (CONFIG, TOKEN)
    cache,      \* value stored under the Redis cache key, None when absent
    resp,       \* the handler's response and the locals it was built from
    env         \* process environment and config file the module is loaded in

vars == <<op, ts_prices, window_q, result, rows, cfg, cache, resp, env>>

---------------------------------------------------------------------------
(* Bounds of the model *)

MaxLen == 4       \* longest freely enumerated series
MaxPrice == 3     \* prices of the freely enumerated series are 1..MaxPrice
MaxGap == 2       \* spacing of consecutive points, in slots (0: same ts)
MaxWindow == 3    \* window_q of the freely enumerated calls is 1..MaxWindow
MaxRows == 3      \* longest freely enumerated series a handler is given
MaxLevels == 3    \* net prices a handler is given are the MaxLevels up to 10
MaxNowSlot == 2   \* a request arrives in slot 0..MaxNowSlot

(* Program constants *)

Q15 == 900        \* seconds per quarter-hour slot
NEAR_Q == 48      \* slots in the 12 h near horizon
WINDOW_Q == 12    \* fixed window of the q15 handler (3 h)

None == <<>>      \* Python's None, as a value no tuple result equals

---------------------------------------------------------------------------
(* Exact fractions <<num, den>>, den > 0 *)

FracLess(a, b) == a[1] * b[2] < b[1] * a[2]
FracEq(a, b) == a[1] * b[2] = b[1] * a[2]
FracGeq(a, b) == ~FracLess(a, b)

---------------------------------------------------------------------------
(* Sequence helpers standing for Python list operations *)

RECURSIVE SumSeq(_)
SumSeq(s) == IF s = <<>> THEN 0 ELSE Head(s) + SumSeq(Tail(s))

\* s[:n]
Take(s, n) == IF Len(s) <= n THEN s ELSE SubSeq(s, 1, n)

\* [p for _, p in s]
PricesOf(s) == [i \in 1..Len(s) |-> s[i][2]]

---------------------------------------------------------------------------
(* spotpriceadvisor_api.best_q15_window *)

\* The body of "for i in range(window_q, n)"; i and best_idx are Python
\* (0-based) indices, sequences are 1-based.
RECURSIVE SlideLoop(_, _, _, _, _, _)
SlideLoop(prices, w, i, run, best_sum, best_idx) ==
    IF i >= Len(prices) THEN <<best_idx, best_sum>>
    ELSE LET run2 == run + prices[i + 1] - prices[i - w + 1]
         IN  IF run2 < best_sum
             THEN SlideLoop(prices, w, i + 1, run2, run2, i - w)
             ELSE SlideLoop(prices, w, i + 1, run2, best_sum, best_idx)

\* <<best_idx, best_sum>> of a list of at least w points
SlideMin(points, w) ==
    LET prices == PricesOf(points)
        run == SumSeq(SubSeq(prices, 1, w))
    IN  SlideLoop(prices, w, w, run, run, 0)

api_best_q15_window(tsp, w) ==
    IF Len(tsp) < w THEN None
    ELSE LET b == SlideMin(tsp, w)
         IN  <<tsp[b[1] + 1][1], <<b[2], w>>>>

---------------------------------------------------------------------------
(* spotpriceadvisor-q15.best_q15_window *)

Marker == <<0 - 1, 0 - 1>>     \* the (None, None) cut marker

\* first loop: the list with a marker before every point whose distance to
\* the previous point is not 900 s
Clean(tsp) ==
    LET RECURSIVE Build(_, _)
        Build(i, acc) ==
            IF i > Len(tsp) THEN acc
            ELSE IF i > 1 /\ tsp[i][1] - tsp[i - 1][1] # Q15
                 THEN Build(i + 1, acc \o <<Marker, tsp[i]>>)
                 ELSE Build(i + 1, Append(acc, tsp[i]))
    IN  Build(1, <<>>)

\* what one finished segment does to best
SegmentBest(segment, w, best) ==
    IF Len(segment) >= w
    THEN LET b == SlideMin(segment, w)
             avg == <<b[2], w>>
             start_ts == segment[b[1] + 1][1]
         IN  IF best = None \/ FracLess(avg, best[2])
             THEN <<start_ts, avg>>
             ELSE best
    ELSE best

\* second loop: over clean + [(None, None)]
RECURSIVE SegmentLoop(_, _, _, _, _)
SegmentLoop(items, k, w, segment, best) ==
    IF k > Len(items) THEN best
    ELSE IF items[k] = Marker
         THEN SegmentLoop(items, k + 1, w, <<>>, SegmentBest(segment, w, best))
         ELSE SegmentLoop(items, k + 1, w, Append(segment, items[k]), best)

q15_best_q15_window(tsp, w) ==
    IF Len(tsp) < w THEN None
    ELSE SegmentLoop(Append(Clean(tsp), Marker), 1, w, <<>>, None)

---------------------------------------------------------------------------
(* Inputs of the calls of best_q15_window *)

Prices == 1..MaxPrice
Gaps == 0..MaxGap

\* every ascending series of n points that starts at ts 0
RECURSIVE SeriesOfLen(_)
SeriesOfLen(n) ==
    IF n = 0 THEN {<<>>}
    ELSE IF n = 1 THEN {<< <<0, p>> >> : p \in Prices}
    ELSE {Append(s, <<s[Len(s)][1] + g * Q15, p>>) :
              s \in SeriesOfLen(n - 1), g \in Gaps, p \in Prices}

\* every such series of at most m points
FreeSeries(m) == UNION {SeriesOfLen(n) : n \in 0..m}

\* test_best_q15_window_finds_min_start: 12 slots priced 10..21, slot 4 is 1
TestMinStartSeries ==
    [i \in 1..12 |-> <<1700000000 + (i - 1) * Q15, IF i = 5 THEN 1 ELSE 9 + i>>]

\* test_best_q15_window_ignores_gaps: 5 + i, an outlier of 100, then 2s
TestGapSeries ==
    [i \in 1..5 |-> <<1700000000 + (i - 1) * Q15, 4 + i>>]
    \o << <<1700000000 + 10000, 100>> >>
    \o [i \in 1..5 |-> <<1700000000 + 20000 + (i - 1) * Q15, 2>>]

\* the <<series, window_q>> pairs of the calls: the free series of at most m
\* points with every window up to MaxWindow, and the inputs of the two tests
WinInputs(m) ==
    (FreeSeries(m) \X (1..MaxWindow))
    \cup {<<TestMinStartSeries, 4>>, <<TestGapSeries, 3>>}

---------------------------------------------------------------------------
(* Specification SpecWin: calls of the two best_q15_window functions *)

\* the response before any handler has run
NoResp ==
    [status |-> 0, body |-> "none", auth |-> <<>>, fetch |-> "none", now_ts |-> 0,
     cur_q15_ts |-> 0, window_q |-> 0, past |-> <<>>, future |-> <<>>,
     past_avg |-> None, current_avg |-> None, best_12h |-> None,
     best_all |-> None, msg |-> <<>>, candidates |-> <<>>, best |-> None]

NoCfg == [module |-> "none", token |-> "", cache_enabled |-> FALSE, ttl_seconds |-> 0]

\* an environment variable that is not set / a config file that is not there
Unset == "(unset)"

\* the environment of a module that is already loaded (not looked at again)
NoEnv ==
    [SPOTPRICE_TOKEN |-> Unset, SPOTPRICE_ALLOW_DEFAULT |-> Unset,
     SPOTPRICE_CACHE |-> Unset, SPOTPRICE_CACHE_TTL |-> Unset,
     file_token |-> Unset]

InitWin ==
    /\ op = "init"
    /\ \E inp \in WinInputs(MaxLen) : ts_prices = inp[1] /\ window_q = inp[2]
    /\ result = None
    /\ rows = <<>>
    /\ cfg = NoCfg
    /\ cache = None
    /\ resp = NoResp
    /\ env = NoEnv

CallApiBest ==
    /\ op = "init"
    /\ op' = "api_best"
    /\ result' = api_best_q15_window(ts_prices, window_q)
    /\ UNCHANGED <<env, ts_prices, window_q, rows, cfg, cache, resp>>

CallQ15Best ==
    /\ op = "init"
    /\ op' = "q15_best"
    /\ result' = q15_best_q15_window(ts_prices, window_q)
    /\ UNCHANGED <<env, ts_prices, window_q, rows, cfg, cache, resp>>

NextWin == CallApiBest \/ CallQ15Best

SpecWin == InitWin /\ [][NextWin]_vars

---------------------------------------------------------------------------
(* Arithmetic shared by the handlers *)

floor_to_q15(ts) == ts - (ts % Q15)

\* sum(xs) / Decimal(len(xs))
Mean(prices) == <<SumSeq(prices), Len(prices)>>

\* avg * Decimal("0.90")
CheapLimit(avg) == <<avg[1] * 9, avg[2] * 10>>

\* current_avg < past_avg * Decimal("0.90")
IsCheap(avg, past_avg) == FracLess(avg, CheapLimit(past_avg))

IsExpensive_Strict(best_avg, past_avg) == FracLess(CheapLimit(past_avg), best_avg)

\* best_avg >= past_avg * Decimal("0.90")
IsExpensive(best_avg, past_avg) == FracGeq(best_avg, CheapLimit(past_avg))

\* the scan of min(): keeps the first of the minimal elements
RECURSIVE MinScan(_, _, _)
MinScan(cands, k, best) ==
    IF k > Len(cands) THEN best
    ELSE MinScan(cands, k + 1,
                 IF FracLess(cands[k][2], best[2]) THEN cands[k] ELSE best)

RECURSIVE MinScanLast(_, _, _)
MinScanLast(cands, k, best) ==
    IF k > Len(cands) THEN best
    ELSE MinScanLast(cands, k + 1,
                     IF FracLess(best[2], cands[k][2]) THEN best ELSE cands[k])

MinCandidate_Last(cands) == MinScanLast(cands, 2, cands[1])

\* min(candidates, key=lambda x: x[1])
MinCandidate(cands) == MinScan(cands, 2, cands[1])

\* the candidates list: current, then 12h and future when they exist
Candidates(cur_ts, current_avg, best_12h, best_all) ==
    (IF current_avg # None THEN << <<cur_ts, current_avg, "current">> >> ELSE <<>>)
    \o (IF best_12h # None THEN << <<best_12h[1], best_12h[2], "12h">> >> ELSE <<>>)
    \o (IF best_all # None THEN << <<best_all[1], best_all[2], "future">> >> ELSE <<>>)

\* the closing sentence
FinalSentence(best, past_avg) ==
    IF IsExpensive(best[2], past_avg) THEN "expensive"
    ELSE IF best[3] = "current" THEN "best_now"
    ELSE "best_later"

InfoSentences_NonStrict(past_avg, current_avg, best_12h, best_all) ==
    <<"past_avg">>
    \o (IF current_avg # None /\ IsCheap(current_avg, past_avg)
        THEN <<"cheap_current">> ELSE <<>>)
    \o (IF best_12h # None
           /\ (current_avg = None \/ ~FracLess(current_avg, best_12h[2]))
        THEN <<"best_12h">> ELSE <<>>)
    \o (IF best_all # None
           /\ (best_12h = None \/ FracLess(best_all[2], best_12h[2]))
        THEN <<"best_all">> ELSE <<>>)

\* the informational sentences that precede the closing one
InfoSentences(past_avg, current_avg, best_12h, best_all) ==
    <<"past_avg">>
    \o (IF current_avg # None /\ IsCheap(current_avg, past_avg)
        THEN <<"cheap_current">> ELSE <<>>)
    \o (IF best_12h # None
           /\ (current_avg = None \/ FracLess(best_12h[2], current_avg))
        THEN <<"best_12h">> ELSE <<>>)
    \o (IF best_all # None
           /\ (best_12h = None \/ FracLess(best_all[2], best_12h[2]))
        THEN <<"best_all">> ELSE <<>>)

\* future[:48] if len(future) >= 48 else future
Within12h(future) == IF Len(future) >= NEAR_Q THEN SubSeq(future, 1, NEAR_Q) ELSE future

\* [x for x in s if x.ts < t] and [x for x in s if x.ts >= t]
Before(s, t) == SelectSeq(s, LAMBDA x : x[1] < t)
From(s, t) == SelectSeq(s, LAMBDA x : x[1] >= t)

---------------------------------------------------------------------------
(* spotpriceadvisor_api: fetch_api_prices *)

\* net cents -> euro -> taxed euro -> gross cents; the unit is 1/1000 cent
api_gross(price) == price * 1255

\* list.sort(key=ts): stable
InsertByTs(sorted, x) ==
    LET k == Cardinality({i \in 1..Len(sorted) : sorted[i][1] <= x[1]})
    IN  SubSeq(sorted, 1, k) \o <<x>> \o SubSeq(sorted, k + 1, Len(sorted))

\* acc holds the first Len(acc) elements of s, sorted
RECURSIVE SortFrom(_, _)
SortFrom(s, acc) ==
    IF Len(acc) = Len(s) THEN acc
    ELSE SortFrom(s, InsertByTs(acc, s[Len(acc) + 1]))

SortByTs(s) == SortFrom(s, <<>>)

\* the conversion loop and the final sort
ApiConvert(raw) ==
    SortByTs([i \in 1..Len(raw) |-> <<raw[i][1], api_gross(raw[i][2])>>])

\* e: what the environment does during this call
\*   e.get      "value" | "raise" | "garbage"  (redis get; garbage fails json.loads)
\*   e.upstream "ok" | "error"                 (urlopen / json.load)
\*   e.setex    "ok" | "raise"
\* client: redis_client is not None; cached: the stored value; up: the
\* "prices" list the API holds.  Yields how the call ended, the list
\* returned and the value stored afterwards.
fetch_api_prices(client, cache_ttl, e, cached, up) ==
    IF client /\ e.get = "raise"
    THEN [ended |-> "cache_error", out |-> <<>>, cache |-> cached]
    ELSE IF client /\ cached # None /\ e.get = "value"
    THEN [ended |-> "cache", out |-> ApiConvert(cached), cache |-> cached]
    ELSE IF e.upstream = "error"
    THEN [ended |-> "upstream_error", out |-> <<>>, cache |-> cached]
    ELSE IF up = <<>>
    THEN [ended |-> "upstream_empty", out |-> <<>>, cache |-> cached]
    ELSE [ended |-> "upstream", out |-> ApiConvert(up),
          cache |-> IF client /\ cache_ttl > 0 /\ e.setex = "ok"
                    THEN up ELSE cached]

FetchRaised(f) == f.ended \in {"cache_error", "upstream_error", "upstream_empty"}

---------------------------------------------------------------------------
(* spotpriceadvisor_api: advisor *)

\* f"Bearer {TOKEN}"
Bearer(token) == <<"Bearer", token>>

ApiAuthorized_AnyBearer(token, auth) ==
    token = "" \/ (Len(auth) > 0 /\ auth[1] = "Bearer")

\* if TOKEN: if auth != f"Bearer {TOKEN}": abort(401)
ApiAuthorized(token, auth) == token = "" \/ auth = Bearer(token)

\* math.ceil(max(15, minutes) / 15)
api_window_q(minutes) ==
    LET duration_minutes == IF minutes < 15 THEN 15 ELSE minutes
    IN  (duration_minutes + 14) \div 15

InsufficientData_FutureOnly(past, future, w) == Len(future) < w

\* the two 503 exits: "if not past" and "if len(future) < window_q"
InsufficientData(past, future, w) == past = <<>> \/ Len(future) < w

\* the response once past and future are known to suffice
ApiAdvice(base, past, future, w, cur) ==
    LET past_avg == Mean(past)
        current_avg == Mean(PricesOf(Take(future, w)))
        best_12h == api_best_q15_window(Within12h(future), w)
        best_all == api_best_q15_window(future, w)
        cands == Candidates(cur, current_avg, best_12h, best_all)
        best == MinCandidate(cands)
    IN  [base EXCEPT !.status = 200, !.body = "advice",
                     !.past_avg = past_avg, !.current_avg = current_avg,
                     !.best_12h = best_12h, !.best_all = best_all,
                     !.candidates = cands, !.best = best,
                     !.msg = Append(InfoSentences(past_avg, current_avg,
                                                  best_12h, best_all),
                                    FinalSentence(best, past_avg))]

\* the handler: the response and the value left in the cache
ApiAdvisor(c, auth, minutes, now, e, cached, up) ==
    IF ~ApiAuthorized(c.token, auth)
    THEN [resp |-> [NoResp EXCEPT !.status = 401, !.body = "abort",
                                  !.auth = auth],
          cache |-> cached]
    ELSE
    LET w == api_window_q(minutes)
        cur == floor_to_q15(now)
        client == c.cache_enabled /\ e.redis_up
        f == fetch_api_prices(client, c.ttl_seconds, e, cached, up)
        past == PricesOf(Before(f.out, cur))
        future == From(f.out, cur)
        base == [NoResp EXCEPT !.auth = auth, !.fetch = f.ended,
                               !.now_ts = now,
                               !.cur_q15_ts = cur, !.window_q = w,
                               !.past = past, !.future = future]
    IN  IF FetchRaised(f)
        THEN [resp |-> [NoResp EXCEPT !.status = 502, !.body = "fetch_error",
                                      !.auth = auth, !.fetch = f.ended],
              cache |-> f.cache]
        ELSE IF InsufficientData(past, future, w)
        THEN [resp |-> [base EXCEPT !.status = 503,
                            !.body = IF past = <<>> THEN "no_past"
                                     ELSE "no_future"],
              cache |-> f.cache]
        ELSE [resp |-> ApiAdvice(base, past, future, w, cur),
              cache |-> f.cache]

---------------------------------------------------------------------------
(* Inputs of the handlers *)

Levels == (11 - MaxLevels)..10
RowGaps == {0, 1, 2}

RECURSIVE RowsOfLen(_)
RowsOfLen(n) ==
    IF n = 0 THEN {<<>>}
    ELSE IF n = 1 THEN {<< <<0, p>> >> : p \in Levels}
    ELSE {Append(s, <<s[Len(s)][1] + g * Q15, p>>) :
              s \in RowsOfLen(n - 1), g \in RowGaps, p \in Levels}

FreeRows(m) == UNION {RowsOfLen(n) : n \in 0..m}

Reverse(s) == [i \in 1..Len(s) |-> s[Len(s) + 1 - i]]

\* one past point, 48 contiguous points from slot 1, two more after them
LongRows(L) ==
    {<< <<0, p1>> >>
        \o [i \in 1..NEAR_Q |-> <<i * Q15, p2>>]
        \o [i \in 1..2 |-> <<(NEAR_Q + i) * Q15, p3>>] :
     p1 \in L, p2 \in L, p3 \in L}

\* the API answers newest first or oldest first
ApiRows(m) ==
    FreeRows(m) \cup {Reverse(s) : s \in FreeRows(m)} \cup LongRows(Levels)

ApiCfgs ==
    [module : {"api"}, token : {"", "tok"}, cache_enabled : BOOLEAN,
     ttl_seconds : {0, 60}]

\* token "", cache off
ApiPlainCfg ==
    [module |-> "api", token |-> "", cache_enabled |-> FALSE, ttl_seconds |-> 0]

AuthHeaders == {<<>>, Bearer("tok"), Bearer("bad")}

\* minutes= of the request: below 15, a multiple of 15, or in between
MinutesFor(w) ==
    IF w = 1 THEN 10 ELSE IF w % 2 = 0 THEN 15 * w ELSE 15 * w - 5
MinutesArgs == {MinutesFor(w) : w \in 1..MaxWindow}

NowChoices == {k * Q15 + o : k \in 0..MaxNowSlot, o \in {0, 450}}

\* what the environment can do during a request under configuration c
ApiEnvs(c, cached) ==
    [redis_up : IF c.cache_enabled THEN BOOLEAN ELSE {FALSE},
     get      : IF c.cache_enabled
                THEN (IF cached # None THEN {"value", "raise", "garbage"}
                      ELSE {"value", "raise"})
                ELSE {"value"},
     upstream : {"ok", "error"},
     setex    : IF c.cache_enabled /\ c.ttl_seconds > 0
                THEN {"ok", "raise"} ELSE {"ok"}]

---------------------------------------------------------------------------
(* Specification SpecApi: requests to the API handler *)

InitApi ==
    /\ op = "idle"
    /\ ts_prices = <<>>
    /\ window_q = 0
    /\ result = None
    /\ \E r \in ApiRows(MaxRows), c \in ApiCfgs :
          /\ (Len(r) > 2 => c = ApiPlainCfg)
          /\ rows = r
          /\ cfg = c
    /\ cache = None
    /\ resp = NoResp
    /\ env = NoEnv

ApiRequest ==
    /\ op = "idle"
    /\ cfg.module = "api"
    /\ op' = "api"
    /\ \E auth \in AuthHeaders, minutes \in MinutesArgs, now \in NowChoices,
          e \in ApiEnvs(cfg, cache) :
          LET r == ApiAdvisor(cfg, auth, minutes, now, e, cache, rows)
          IN  resp' = r.resp /\ cache' = r.cache
    /\ UNCHANGED <<env, ts_prices, window_q, result, rows, cfg>>

\* the response is sent; the request's data is dropped
ApiRespond ==
    /\ op = "api"
    /\ op' = "idle"
    /\ resp' = NoResp
    /\ UNCHANGED <<env, ts_prices, window_q, result, rows, cfg, cache>>

\* the cached value's TTL runs out
CacheExpire ==
    /\ op = "idle"
    /\ cache # None
    /\ cache' = None
    /\ UNCHANGED <<env, op, ts_prices, window_q, result, rows, cfg, resp>>

NextApi == ApiRequest \/ ApiRespond \/ CacheExpire

SpecApi == InitApi /\ [][NextApi]_vars

---------------------------------------------------------------------------
(* spotpriceadvisor-q15: queries and advisor *)

TZ == 7200        \* utc offset of the server's local time zone (FI), seconds
DAY == 86400

\* net price / 1000 * 1.255 * 100; the unit is 1/10000 cent
q15_gross(price) == price * 1255

\* WHERE timestamp >= ts_from ORDER BY timestamp ASC LIMIT limit
fetch_q15_prices_since(table, ts_from, limit) ==
    LET sel == From(table, ts_from)
        cut == Take(sel, limit)
    IN  [i \in 1..Len(cut) |-> <<cut[i][1], q15_gross(cut[i][2])>>]

\* WHERE timestamp >= now_ts - 7 * 86400 AND timestamp < now_ts
fetch_past_7d_prices(table, now) ==
    LET sel == Before(From(table, now - 7 * DAY), now)
    IN  [i \in 1..Len(sel) |-> q15_gross(sel[i][2])]

Max(a, b) == IF a >= b THEN a ELSE b

\* 96 quarters before 14:00 local time, else up to 23:45 of tomorrow
compute_future_horizon_q(now, cur) ==
    LET local == now + TZ
        midnight == local - (local % DAY)
        hour == (local - midnight) \div 3600
        end_ts == midnight + 2 * DAY - 900 - TZ
    IN  IF hour < 14 THEN 96
        ELSE Max(96, ((end_ts - cur) \div Q15) + 1)

\* db: "ok" | "connect_error" | "query_error"
Q15Advisor(token, auth, now, db, table) ==
    IF auth # Bearer(token)
    THEN [NoResp EXCEPT !.status = 401, !.body = "abort", !.auth = auth]
    ELSE IF db = "connect_error"
    THEN [NoResp EXCEPT !.status = 500, !.body = "db_connect", !.auth = auth]
    ELSE IF db = "query_error"
    THEN [NoResp EXCEPT !.status = 500, !.body = "db_query", !.auth = auth]
    ELSE
    LET cur == floor_to_q15(now)
        past_7d == fetch_past_7d_prices(table, now)
        future == fetch_q15_prices_since(table, cur,
                                         compute_future_horizon_q(now, cur))
        base == [NoResp EXCEPT !.auth = auth, !.fetch = "db", !.now_ts = now,
                               !.cur_q15_ts = cur, !.window_q = WINDOW_Q,
                               !.past = past_7d]
    IN  IF past_7d = <<>>
        THEN [base EXCEPT !.status = 503, !.body = "no_past"]
        ELSE IF future = <<>> \/ Len(future) < WINDOW_Q
        THEN [base EXCEPT !.status = 503, !.body = "no_future",
                          !.future = future]
        ELSE
        LET past_7d_avg == Mean(past_7d)
            current_avg == IF Len(future) >= WINDOW_Q
                           THEN Mean(PricesOf(Take(future, WINDOW_Q)))
                           ELSE None
            best_12h == q15_best_q15_window(Within12h(future), WINDOW_Q)
            best_all == q15_best_q15_window(future, WINDOW_Q)
            cands == Candidates(cur, current_avg, best_12h, best_all)
        IN  IF cands = <<>>
            THEN [base EXCEPT !.status = 503, !.body = "no_candidates",
                              !.future = future]
            ELSE
            LET best == MinCandidate(cands)
            IN  [base EXCEPT !.status = 200, !.body = "advice",
                     !.future = future,
                     !.past_avg = past_7d_avg, !.current_avg = current_avg,
                     !.best_12h = best_12h, !.best_all = best_all,
                     !.candidates = cands, !.best = best,
                     !.msg = Append(InfoSentences(past_7d_avg, current_avg,
                                                  best_12h, best_all),
                                    FinalSentence(best, past_7d_avg))]

---------------------------------------------------------------------------
(* Specification SpecQ15: requests to the q15 handler *)

MaxRuns == 2      \* the table holds at most MaxRuns runs of equal prices

T0 == 47 * Q15    \* first timestamp of the table: 13:45 local time
RunLens == {1, 12, 38}
RunGaps == {1, 2}

\* a run of n points of price p, its first point g slots after prev_ts
Run(prev_ts, g, n, p) == [i \in 1..n |-> <<prev_ts + (g + i - 1) * Q15, p>>]

RECURSIVE TablesOf(_)
TablesOf(k) ==
    IF k = 0 THEN {<<>>}
    ELSE IF k = 1
    THEN {Run(T0, 0, n, p) : n \in RunLens, p \in Levels}
    ELSE {t \o Run(t[Len(t)][1], g, n, p) :
              t \in TablesOf(k - 1), g \in RunGaps, n \in RunLens, p \in Levels}

Q15Tables(m) == UNION {TablesOf(k) : k \in 0..m}

Q15Nows == {T0 + k * Q15 + o : k \in 0..MaxNowSlot, o \in {0, 450}}

Q15Cfg ==
    [module |-> "q15", token |-> "tok", cache_enabled |-> FALSE, ttl_seconds |-> 0]

InitQ15 ==
    /\ op = "idle"
    /\ ts_prices = <<>>
    /\ window_q = 0
    /\ result = None
    /\ rows \in Q15Tables(MaxRuns)
    /\ cfg = Q15Cfg
    /\ cache = None
    /\ resp = NoResp
    /\ env = NoEnv

Q15Request ==
    /\ op = "idle"
    /\ cfg.module = "q15"
    /\ op' = "q15"
    /\ \E auth \in AuthHeaders, now \in Q15Nows,
          db \in {"ok", "connect_error", "query_error"} :
          resp' = Q15Advisor(cfg.token, auth, now, db, rows)
    /\ UNCHANGED <<env, ts_prices, window_q, result, rows, cfg, cache>>

Q15Respond ==
    /\ op = "q15"
    /\ op' = "idle"
    /\ resp' = NoResp
    /\ UNCHANGED <<env, ts_prices, window_q, result, rows, cfg, cache>>

NextQ15 == Q15Request \/ Q15Respond

SpecQ15 == InitQ15 /\ [][NextQ15]_vars

---------------------------------------------------------------------------
(* Specification Spec: a deployment of either handler *)

Init == InitApi \/ InitQ15

Next == NextApi \/ NextQ15

Spec == Init /\ [][Next]_vars

---------------------------------------------------------------------------
(* spotpriceadvisor_api: loading the module (configuration and token gate) *)

DEFAULT_TOKEN_SENTINEL == "CHANGEME_SPOTPRICE_TOKEN"

\* os.environ.get(name, default)
EnvGet(v, default) == IF v = Unset THEN default ELSE v

\* str.lower(), on the values the environment is given here
Lower(s) == IF s = "True" THEN "true" ELSE s

\* int(), on the values the environment is given here
IntOf(s) == IF s = "0" THEN 0 ELSE 60

\* CONFIG["server"]["token"]: the token of the config file when it has one
\* (deep_merge), else that of DEFAULT_CONFIG; a missing or unreadable file
\* leaves DEFAULT_CONFIG
ConfigToken(e) ==
    IF e.file_token # Unset THEN e.file_token
    ELSE EnvGet(e.SPOTPRICE_TOKEN, DEFAULT_TOKEN_SENTINEL)

\* TOKEN = CONFIG["server"].get("token") or ""
TOKEN(e) == IF ConfigToken(e) = "" THEN "" ELSE ConfigToken(e)

\* if TOKEN == DEFAULT_TOKEN_SENTINEL and not os.environ.get(
\*     "SPOTPRICE_ALLOW_DEFAULT", ""): raise RuntimeError
LoadRaises(e) ==
    /\ TOKEN(e) = DEFAULT_TOKEN_SENTINEL
    /\ EnvGet(e.SPOTPRICE_ALLOW_DEFAULT, "") = ""

\* the module-level configuration the handler reads
LoadedCfg(e) ==
    [module |-> "api",
     token |-> TOKEN(e),
     cache_enabled |-> Lower(EnvGet(e.SPOTPRICE_CACHE, "false")) = "true",
     ttl_seconds |-> IntOf(EnvGet(e.SPOTPRICE_CACHE_TTL, "60"))]

Envs ==
    [SPOTPRICE_TOKEN : {Unset, "", "tok", DEFAULT_TOKEN_SENTINEL},
     SPOTPRICE_ALLOW_DEFAULT : {Unset, "", "1"},
     SPOTPRICE_CACHE : {Unset, "false", "True"},
     SPOTPRICE_CACHE_TTL : {Unset, "0"},
     file_token : {Unset, "", "tok"}]

\* SPOTPRICE_TOKEN="" and nothing else set: test_empty_token_allows_no_auth
PlainEnv == [NoEnv EXCEPT !.SPOTPRICE_TOKEN = ""]

\* one point in slot 0 and one in slot 1
ShortRows(L) == {<< <<0, p>>, <<Q15, q>> >> : p \in L, q \in L}

\* one point in slot 0, none in slots 1 and 2, 47 points from slot 3 and
\* three more after them
GapRows(L) ==
    {<< <<0, p1>> >>
        \o [i \in 1..(NEAR_Q - 1) |-> <<(i + 2) * Q15, p2>>]
        \o [i \in 1..3 |-> <<(NEAR_Q + 1 + i) * Q15, p3>>] :
     p1 \in L, p2 \in L, p3 \in L}

DeployRows(L) == {<<>>} \cup ShortRows(L) \cup GapRows(L)

---------------------------------------------------------------------------
(* Specification SpecDeploy: the API module is loaded, then serves requests *)

InitDeploy ==
    /\ op = "unloaded"
    /\ ts_prices = <<>>
    /\ window_q = 0
    /\ result = None
    /\ \E r \in DeployRows(Levels), e \in Envs :
          /\ (Len(r) > 2 => e = PlainEnv)
          /\ rows = r
          /\ env = e
    /\ cfg = NoCfg
    /\ cache = None
    /\ resp = NoResp

\* import of the module: CONFIG and TOKEN are set, or RuntimeError is raised
ApiLoad ==
    /\ op = "unloaded"
    /\ IF LoadRaises(env)
       THEN op' = "load_failed" /\ cfg' = cfg
       ELSE op' = "idle" /\ cfg' = LoadedCfg(env)
    /\ UNCHANGED <<env, ts_prices, window_q, result, rows, cache, resp>>

NextDeploy == ApiLoad \/ ApiRequest \/ ApiRespond \/ CacheExpire

SpecDeploy == InitDeploy /\ [][NextDeploy]_vars

---------------------------------------------------------------------------
(* spotpriceadvisor (hourly handler) *)

(* Prices are floats in this module; the model keeps them exact, in units  *)
(* of 1/10000 cent, and averages as fractions as above.                    *)

HOUR == 3600

\* taxedprice(price / 10): 1.255 * price / 10 cents
hourly_gross(price) == price * 1255

\* lowest_price = 9999999 (cents): above every average the prices of the
\* model can form.  It is kept as the fraction <<1, 0>>, which the
\* cross-multiplied comparisons place above every fraction and which is not
\* below 0.9 times any average.
NO_PRICE == <<1, 0>>

\* Python s[a:b] for 0 <= a <= b
Slice(s, a, b) ==
    LET hi == IF b > Len(s) THEN Len(s) ELSE b
    IN  IF a >= hi THEN <<>> ELSE SubSeq(s, a + 1, hi)

\* sum(ps) / len(ps) over the prices of the <<ts, price>> pairs
calculate_avg_price(prices) == Mean(PricesOf(prices))

\* new_price < og_price * 0.9
price_significantly_less(new_price, og_price) ==
    FracLess(new_price, CheapLimit(og_price))

\* the loop "for i in range(starting_h, ending_h - 2)" from index i on
RECURSIVE LowestLoop(_, _, _, _, _)
LowestLoop(prices, i, ending_h, lowest_price, lowest_starting_hour) ==
    IF i >= ending_h - 2 THEN <<lowest_price, lowest_starting_hour>>
    ELSE LET following_avg_prices == calculate_avg_price(Slice(prices, i, i + 3))
         IN  IF FracLess(following_avg_prices, lowest_price)
             THEN LowestLoop(prices, i + 1, ending_h, following_avg_prices, i)
             ELSE LowestLoop(prices, i + 1, ending_h, lowest_price,
                             lowest_starting_hour)

find_lowest_3h_price_in_hr_range(prices, starting_h, ending_h) ==
    LowestLoop(prices, starting_h, ending_h, NO_PRICE, 0)

\* {ts: taxedprice(price / 10) for ts, price in rows}: one entry per
\* timestamp, at the place of its first row, holding the value of its last
PricesDict(sel) ==
    LET firsts == SelectSeq([i \in 1..Len(sel) |-> i],
                            LAMBDA i : \A j \in 1..(i - 1) : sel[j][1] # sel[i][1])
        last(i) == CHOOSE j \in i..Len(sel) :
                       /\ sel[j][1] = sel[i][1]
                       /\ \A k \in (j + 1)..Len(sel) : sel[k][1] # sel[i][1]
    IN  [n \in 1..Len(firsts) |->
            <<sel[firsts[n]][1], hourly_gross(sel[last(firsts[n])][2])>>]

\* min(price_candidates, key=lambda x: x[0]): the first of the minimal
RECURSIVE MinByAvg(_, _, _)
MinByAvg(cands, k, best) ==
    IF k > Len(cands) THEN best
    ELSE MinByAvg(cands, k + 1,
                  IF FracLess(cands[k][1], best[1]) THEN cands[k] ELSE best)

\* the response before the hourly handler has run
NoHResp ==
    [status |-> 0, body |-> "none", auth |-> <<>>, now_ts |-> 0, cur_ts |-> 0,
     past |-> <<>>, future_prices |-> <<>>, past_avg |-> None,
     candidates |-> <<>>, best |-> None, best_ts |-> 0, msg |-> <<>>]

\* og_price at line 139: "past_7d_avg_price and lowest_price_in_12h <
\* future_3h_avg_price" is the average itself when that is 0.0, else the
\* bool of the comparison (True is 1 cent, False is 0)
OgPrice12h(past_avg, lowest_price_in_12h, future_3h_avg_price) ==
    IF past_avg[1] = 0 THEN past_avg
    ELSE IF FracLess(lowest_price_in_12h, future_3h_avg_price)
    THEN <<10000, 1>> ELSE <<0, 1>>

\* lines 112-170, once the current price and past prices are known to exist
HourlyAdvice(base, past_prices, future_prices, cur_ts) ==
    IF future_prices = <<>>
    THEN \* calculate_avg_price([]) at line 123
         [base EXCEPT !.status = 500, !.body = "ZeroDivisionError"]
    ELSE
    LET past_7d_avg_price == Mean(past_prices)
        future_3h_avg_price == calculate_avg_price(Slice(future_prices, 0, 3))
        has_12 == Len(future_prices) >= 12
        in_12 == find_lowest_3h_price_in_hr_range(future_prices, 1, 12)
        future_prices_starting_idx == IF has_12 THEN 12 ELSE 1
        in_future == find_lowest_3h_price_in_hr_range(
                         future_prices, future_prices_starting_idx,
                         Len(future_prices))
        future_cheap == price_significantly_less(in_future[1], past_7d_avg_price)
    IN  IF ~has_12 /\ future_cheap
        THEN \* lowest_price_in_12h is read at line 149 but was never bound
             [base EXCEPT !.status = 500, !.body = "UnboundLocalError",
                          !.past_avg = past_7d_avg_price]
        ELSE
        LET price_candidates ==
                << <<future_3h_avg_price, 0, "current">> >>
                \o (IF has_12 THEN << <<in_12[1], in_12[2], "12h">> >> ELSE <<>>)
                \o << <<in_future[1], in_future[2], "future">> >>
            best == MinByAvg(price_candidates, 2, price_candidates[1])
            info ==
                <<"past_avg">>
                \o (IF price_significantly_less(future_3h_avg_price,
                                                past_7d_avg_price)
                    THEN <<"cheap_current">> ELSE <<>>)
                \o (IF has_12
                       /\ price_significantly_less(
                              in_12[1],
                              OgPrice12h(past_7d_avg_price, in_12[1],
                                         future_3h_avg_price))
                    THEN <<"best_12h">> ELSE <<>>)
                \o (IF future_cheap
                       /\ FracLess(in_future[1], in_12[1])
                       /\ FracLess(in_future[1], future_3h_avg_price)
                    THEN <<"best_all">> ELSE <<>>)
            final ==
                IF ~price_significantly_less(best[1], past_7d_avg_price)
                THEN "expensive"
                ELSE IF best[3] = "current" THEN "best_now"
                ELSE "best_later"
        IN  [base EXCEPT !.status = 200, !.body = "advice",
                         !.past_avg = past_7d_avg_price,
                         !.candidates = price_candidates, !.best = best,
                         !.best_ts = cur_ts + best[2] * HOUR,
                         !.msg = Append(info, final)]

\* db: "ok" | "error" (connect, execute or fetchall raised)
HourlyAdvisor(token, auth, now_ts, db, table) ==
    IF auth # Bearer(token)
    THEN [NoHResp EXCEPT !.status = 401, !.body = "abort", !.auth = auth]
    ELSE IF db = "error"
    THEN [NoHResp EXCEPT !.status = 500, !.body = "db_error", !.auth = auth]
    ELSE
    LET cur_ts == now_ts - (now_ts % HOUR)
        week_ago_ts == now_ts - 7 * DAY
        prices == PricesDict(From(table, week_ago_ts))
        future_prices == SortByTs(From(prices, now_ts))
        past_prices == PricesOf(Before(prices, now_ts))
        base == [NoHResp EXCEPT !.auth = auth, !.now_ts = now_ts,
                                !.cur_ts = cur_ts, !.past = past_prices,
                                !.future_prices = future_prices]
    IN  IF \A i \in DOMAIN prices : prices[i][1] # cur_ts
        THEN [base EXCEPT !.status = 200, !.body = "no_current"]
        ELSE IF past_prices = <<>>
        THEN [base EXCEPT !.status = 200, !.body = "no_past"]
        ELSE HourlyAdvice(base, past_prices, future_prices, cur_ts)

---------------------------------------------------------------------------
(* Specification SpecHourly: requests to the hourly handler *)

HRunLens == {1, 3, 11}

\* a run of n hourly points of price p, its first point g hours after prev_ts
HRun(prev_ts, g, n, p) == [i \in 1..n |-> <<prev_ts + (g + i - 1) * HOUR, p>>]

RECURSIVE HTablesOf(_)
HTablesOf(k) ==
    IF k = 0 THEN {<<>>}
    ELSE IF k = 1
    THEN {HRun(0, 0, n, p) : n \in HRunLens, p \in Levels}
    ELSE {t \o HRun(t[Len(t)][1], g, n, p) :
              t \in HTablesOf(k - 1), g \in RunGaps, n \in HRunLens, p \in Levels}

HourlyTables(m) == UNION {HTablesOf(k) : k \in 0..m}

HourlyNows == {k * HOUR + o : k \in 0..MaxNowSlot, o \in {0, 1800}}

HourlyCfg ==
    [module |-> "hourly", token |-> "tok", cache_enabled |-> FALSE,
     ttl_seconds |-> 0]

InitHourly ==
    /\ op = "idle"
    /\ ts_prices = <<>>
    /\ window_q = 0
    /\ result = None
    /\ rows \in HourlyTables(MaxRuns)
    /\ cfg = HourlyCfg
    /\ cache = None
    /\ resp = NoHResp
    /\ env = NoEnv

HourlyRequest ==
    /\ op = "idle"
    /\ cfg.module = "hourly"
    /\ op' = "hourly"
    /\ \E auth \in AuthHeaders, now_ts \in HourlyNows, db \in {"ok", "error"} :
          resp' = HourlyAdvisor(cfg.token, auth, now_ts, db, rows)
    /\ UNCHANGED <<env, ts_prices, window_q, result, rows, cfg, cache>>

HourlyRespond ==
    /\ op = "hourly"
    /\ op' = "idle"
    /\ resp' = NoHResp
    /\ UNCHANGED <<env, ts_prices, window_q, result, rows, cfg, cache>>

NextHourly == HourlyRequest \/ HourlyRespond

SpecHourly == InitHourly /\ [][NextHourly]_vars

---------------------------------------------------------------------------
(* Brute-force reference for the window search *)

GapFree(tsp) == \A i \in 2..Len(tsp) : tsp[i][1] - tsp[i - 1][1] = Q15

\* sum of the w prices of the window whose first point is tsp[k]
WinSum(tsp, k, w) == SumSeq([j \in 1..w |-> tsp[k + j - 1][2]])

\* every run of w consecutive list entries
AllStarts(tsp, w) == 1..(Len(tsp) - w + 1)

\* the runs of w entries spaced exactly 900 s apart (inside one segment)
SegStarts(tsp, w) ==
    {k \in AllStarts(tsp, w) :
        \A j \in k..(k + w - 2) : tsp[j + 1][1] - tsp[j][1] = Q15}

MinSumOver(tsp, w, S) ==
    CHOOSE m \in {WinSum(tsp, k, w) : k \in S} :
        \A k \in S : m <= WinSum(tsp, k, w)

ArgMin(tsp, w, S) == {k \in S : WinSum(tsp, k, w) = MinSumOver(tsp, w, S)}

FirstOf(S) == CHOOSE k \in S : \A j \in S : k <= j

\* the windows the called variant searches
Searched == IF op = "q15_best" THEN SegStarts(ts_prices, window_q)
            ELSE AllStarts(ts_prices, window_q)

Called == op \in {"api_best", "q15_best"}

---------------------------------------------------------------------------
(* Claims about best_q15_window, checked under SpecWin *)

\* C1: on an ascending gap-free series of n >= window_q points both variants
\* return the minimum window mean together with the timestamp of the first
\* point of a window that attains it.
C1_SlidingMinCorrect ==
    (Called /\ GapFree(ts_prices) /\ Len(ts_prices) >= window_q) =>
        /\ result # None
        /\ FracEq(result[2],
                  <<MinSumOver(ts_prices, window_q, AllStarts(ts_prices, window_q)),
                    window_q>>)
        /\ \E k \in ArgMin(ts_prices, window_q, AllStarts(ts_prices, window_q)) :
               result[1] = ts_prices[k][1]

\* C2: when several of the searched windows share the minimal average, the
\* start returned is that of the earliest of them.
C2_TieBreakEarliest ==
    (Called /\ result # None
        /\ Cardinality(ArgMin(ts_prices, window_q, Searched)) >= 2) =>
        result[1] = ts_prices[FirstOf(ArgMin(ts_prices, window_q, Searched))][1]

\* C3: the window returned by the API variant never spans a gap: the
\* window_q points from the returned start are spaced exactly 900 s apart.
C3_ApiNoGapInWindow ==
    (op = "api_best" /\ result # None) =>
        \E k \in SegStarts(ts_prices, window_q) : ts_prices[k][1] = result[1]

\* C4: the q15 variant returns None exactly when no segment holds window_q
\* points, and otherwise the minimum-average window among the windows that
\* lie inside one segment.
C4_Q15SegmentSearch ==
    op = "q15_best" =>
        /\ (result = None) <=> (SegStarts(ts_prices, window_q) = {})
        /\ result # None =>
            /\ FracEq(result[2],
                      <<MinSumOver(ts_prices, window_q,
                                   SegStarts(ts_prices, window_q)), window_q>>)
            /\ \E k \in ArgMin(ts_prices, window_q,
                               SegStarts(ts_prices, window_q)) :
                   result[1] = ts_prices[k][1]

\* the slots whose price is lower than the price of every other slot
Cheapest(tsp) ==
    {k \in 1..Len(tsp) : \A j \in 1..Len(tsp) : j # k => tsp[k][2] < tsp[j][2]}

\* C7: on a gap-free series with one slot cheaper than every other and at
\* least window_q - 1 slots after it, the API variant returns that slot as
\* the start of the best window (in the test's case with an average below 5).
C7_StartsAtCheapestSlot ==
    (op = "api_best" /\ GapFree(ts_prices)) =>
        \A k \in Cheapest(ts_prices) :
            k + window_q - 1 <= Len(ts_prices) =>
                /\ result # None
                /\ result[1] = ts_prices[k][1]
                /\ (ts_prices = TestMinStartSeries /\ window_q = 4) =>
                       FracLess(result[2], <<5, 1>>)

---------------------------------------------------------------------------
(* Claims about the handlers, checked under Spec *)

\* a request that was answered with a recommendation
Advice == op \in {"api", "q15"} /\ resp.status = 200

\* the closing sentence of the response
Final == resp.msg[Len(resp.msg)]

Finals == {"expensive", "best_now", "best_later"}

CandidateSet == {resp.candidates[i] : i \in DOMAIN resp.candidates}

\* the candidates no other candidate has a lower average than
MinAvgCandidates ==
    {c \in CandidateSet : \A d \in CandidateSet : ~FracLess(d[2], c[2])}

\* avg >= 0.9 * sum(past) / len(past), cross-multiplied
NotBelowLimit(avg, past) ==
    10 * avg[1] * Len(past) >= 9 * avg[2] * SumSeq(past)

AtLimit(avg, past) == 10 * avg[1] * Len(past) = 9 * avg[2] * SumSeq(past)

\* C5: the chosen candidate has the minimum average; the response closes
\* with exactly one of the three decisions: 'expensive' exactly when the
\* chosen average is not strictly below 0.90 times the baseline average,
\* otherwise 'start now' exactly when the chosen candidate is the current
\* one, otherwise 'start later' for the chosen candidate's start.
C5_DecisionClassification ==
    Advice =>
        /\ Cardinality({i \in DOMAIN resp.msg : resp.msg[i] \in Finals}) = 1
        /\ Final \in Finals
        /\ resp.best \in MinAvgCandidates
        /\ Final = "expensive" <=> NotBelowLimit(resp.best[2], resp.past)
        /\ Final = "best_now" <=>
               (~NotBelowLimit(resp.best[2], resp.past)
                    /\ resp.best[3] = "current")
        /\ Final = "best_later" <=>
               (~NotBelowLimit(resp.best[2], resp.past)
                    /\ resp.best[3] \in {"12h", "future"})

\* C5 witness: the chosen average equals 0.90 times the baseline exactly
\* and the response closes with 'expensive'.
C5_Witness ==
    Advice /\ AtLimit(resp.best[2], resp.past) /\ Final = "expensive"

\* no existing candidate average is below a
IsMinAvg(a) ==
    /\ ~FracLess(resp.current_avg, a)
    /\ resp.best_12h # None => ~FracLess(resp.best_12h[2], a)
    /\ resp.best_all # None => ~FracLess(resp.best_all[2], a)

\* the first candidate, in the order current, 12h, future, of minimum average
FirstMinimal ==
    IF IsMinAvg(resp.current_avg)
    THEN <<resp.cur_q15_ts, resp.current_avg, "current">>
    ELSE IF resp.best_12h # None /\ IsMinAvg(resp.best_12h[2])
    THEN <<resp.best_12h[1], resp.best_12h[2], "12h">>
    ELSE <<resp.best_all[1], resp.best_all[2], "future">>

AllThreeEqual ==
    /\ resp.best_12h # None
    /\ resp.best_all # None
    /\ FracEq(resp.current_avg, resp.best_12h[2])
    /\ FracEq(resp.current_avg, resp.best_all[2])

\* C6: the candidate selected is the one of minimum average, the earlier in
\* the order current, 12h, future when averages are equal; with all three
\* averages equal and below the limit the decision is 'start now'.
C6_DecisionPriority ==
    Advice =>
        /\ resp.best = FirstMinimal
        /\ (AllThreeEqual /\ ~NotBelowLimit(resp.current_avg, resp.past))
               => Final = "best_now"

\* C6 witness: three equal averages below the limit, answered 'start now'.
C6_Witness ==
    /\ Advice
    /\ AllThreeEqual
    /\ ~NotBelowLimit(resp.current_avg, resp.past)
    /\ Final = "best_now"

\* C8: the current candidate starts at the floored request time ref and its
\* average is the mean of the window_q slots at ref, ref+900, ...,
\* ref+(window_q-1)*900.
C8_CurrentWindowAtRef ==
    Advice =>
        LET ref == resp.now_ts - (resp.now_ts % Q15)
        IN  /\ resp.candidates[1][1] = ref
            /\ resp.candidates[1][3] = "current"
            /\ \A j \in 1..resp.window_q :
                   resp.future[j][1] = ref + (j - 1) * Q15
            /\ FracEq(resp.candidates[1][2],
                      <<WinSum(resp.future, 1, resp.window_q), resp.window_q>>)

\* the rows of the table on either side of t, as gross prices
GrossBefore(t) ==
    LET sel == Before(rows, t) IN [i \in 1..Len(sel) |-> sel[i][2] * 1255]
GrossFrom(t) ==
    LET sel == From(rows, t)
    IN  [i \in 1..Len(sel) |-> <<sel[i][1], sel[i][2] * 1255>>]

\* C9: in the q15 handler the baseline holds exactly the points before the
\* floored request time and the future series exactly the points from it
\* on, so no point is in both.
C9_Q15PastFutureSplit ==
    (Advice /\ op = "q15") =>
        LET ref == resp.now_ts - (resp.now_ts % Q15)
        IN  /\ resp.past = GrossBefore(ref)
            /\ resp.future = GrossFrom(ref)

\* what a response carries when no recommendation was computed
NothingComputed ==
    /\ resp.past_avg = None
    /\ resp.current_avg = None
    /\ resp.best_12h = None
    /\ resp.best_all = None
    /\ resp.candidates = <<>>
    /\ resp.best = None
    /\ resp.msg = <<>>

\* rows of the API before / from the floored request time
NumBefore(t) == Cardinality({i \in DOMAIN rows : rows[i][1] < t})
NumFrom(t) == Cardinality({i \in DOMAIN rows : rows[i][1] >= t})

\* C10: in the API handler a failed fetch is answered 502, never 503; a
\* fetch that succeeded but left no past point or fewer than window_q
\* future points is answered 503; neither response carries an average, a
\* candidate or a decision.
C10_ApiErrorTaxonomy ==
    op = "api" =>
        /\ resp.fetch \in {"upstream_error", "upstream_empty", "cache_error"}
               => resp.status = 502
        /\ (resp.fetch \in {"upstream", "cache"}
               /\ (NumBefore(resp.cur_q15_ts) = 0
                      \/ NumFrom(resp.cur_q15_ts) < resp.window_q))
               => resp.status = 503
        /\ resp.status \in {502, 503} => NothingComputed
        /\ resp.status = 502 => resp.fetch \notin {"upstream", "cache"}

\* C10 witness: the upstream call failed and the answer is 502.
C10_Witness ==
    op = "api" /\ resp.fetch = "upstream_error" /\ resp.status = 502

---------------------------------------------------------------------------
(* Claims about loading and authentication, checked under SpecDeploy *)

\* the token the configuration resolves to is t
ResolvesTo(t) ==
    \/ env.file_token = t
    \/ env.file_token = Unset /\ env.SPOTPRICE_TOKEN = t

\* no token is configured anywhere, or the sentinel itself is configured
SentinelToken ==
    \/ env.file_token = Unset /\ env.SPOTPRICE_TOKEN = Unset
    \/ ResolvesTo(DEFAULT_TOKEN_SENTINEL)

Loaded == op \in {"idle", "api"}

C11_State ==
    /\ (op # "unloaded" /\ SentinelToken /\ env.SPOTPRICE_ALLOW_DEFAULT = Unset)
           => op = "load_failed"
    /\ (op # "unloaded" /\ ResolvesTo(""))
           => /\ Loaded
              /\ cfg.token = ""
              /\ op = "api" => resp.status # 401
    /\ (op = "api" /\ cfg.token # "" /\ resp.auth # <<"Bearer", cfg.token>>)
           => /\ resp.status = 401
              /\ resp.fetch = "none"
              /\ NothingComputed

\* a request answered 401 leaves the cached value as it was
C11_Step == (op' = "api" /\ resp'.status = 401) => cache' = cache

\* C11: loading raises when the token resolves to the default sentinel and
\* SPOTPRICE_ALLOW_DEFAULT is not set; with an explicitly empty token the
\* module loads with TOKEN = "" and no request is answered 401; with a
\* non-empty token a request whose Authorization header is not exactly
\* "Bearer <TOKEN>" is answered 401 with no fetch made, nothing computed and
\* the cache untouched.
C11_TokenGate == [](C11_State) /\ [][C11_Step]_vars

\* C11 witness: token "tok" is configured and a request with another bearer
\* token was answered 401.
C11_Witness ==
    /\ op = "api"
    /\ cfg.token = "tok"
    /\ resp.auth = <<"Bearer", "bad">>
    /\ resp.status = 401

---------------------------------------------------------------------------
(* Further claims about the API and q15 handlers *)

\* the response holds sentence x
Says(x) == \E i \in DOMAIN resp.msg : resp.msg[i] = x

\* C12: the 'current window is cheap' sentence is present exactly when
\* current_avg < 0.90 * baseline average; the near-horizon sentence exactly
\* when a near-horizon best exists with an average strictly below
\* current_avg; the full-horizon sentence exactly when a full-horizon best
\* exists and the near-horizon best is absent or has a strictly higher
\* average.  None of the three depends on the closing decision.
C12_InformationalFlags ==
    Advice =>
        /\ Says("cheap_current") <=> ~NotBelowLimit(resp.current_avg, resp.past)
        /\ Says("best_12h") <=>
               (resp.best_12h # None
                    /\ FracLess(resp.best_12h[2], resp.current_avg))
        /\ Says("best_all") <=>
               (resp.best_all # None
                    /\ (resp.best_12h = None
                           \/ FracLess(resp.best_all[2], resp.best_12h[2])))

\* C12 witness: the near-horizon sentence is given although the current
\* window is not cheap and the decision is 'expensive'.
C12_Witness ==
    /\ Advice
    /\ Says("best_12h")
    /\ ~Says("cheap_current")
    /\ Final = "expensive"

\* C15 (checked under SpecDeploy): a near-horizon best window that is
\* reported starts at or after the floored request time ref and its
\* window_q slots end no later than ref + 48 * 900 s.
C15_NearHorizonBound ==
    (Advice /\ Says("best_12h")) =>
        /\ resp.best_12h[1] >= resp.cur_q15_ts
        /\ resp.best_12h[1] + resp.window_q * Q15
               <= resp.cur_q15_ts + NEAR_Q * Q15

\* C17: when the API handler closes with 'start later', the start announced
\* is strictly later than the floored request time.
C17_BestLaterAfterRef ==
    (Advice /\ op = "api" /\ Final = "best_later") =>
        resp.best[1] > resp.cur_q15_ts

\* C18: in the API handler an error response to a failed fetch comes from
\* the upstream call only (it failed or returned no prices); a failure of
\* the cache never ends a request with an error.
C18_CacheOptional ==
    (op = "api" /\ resp.status = 502) =>
        resp.fetch \in {"upstream_error", "upstream_empty"}

---------------------------------------------------------------------------
(* Claims about the hourly handler, checked under SpecHourly *)

\* a request the hourly handler answered with a recommendation
HAdvice == op = "hourly" /\ resp.body = "advice"

\* C13: for a future series of at least 3 hourly points the average of the
\* chosen candidate is not above the average of any 3 consecutive future
\* price points.
C13_HourlyOverallMinimum ==
    (HAdvice /\ Len(resp.future_prices) >= 3) =>
        \A k \in 1..(Len(resp.future_prices) - 2) :
            ~FracLess(<<WinSum(resp.future_prices, k, 3), 3>>, resp.best[1])

\* the table holds a row at, before, from the given time
HasRowAt(t) == \E i \in DOMAIN rows : rows[i][1] = t
HasRowBefore(t) == \E i \in DOMAIN rows : rows[i][1] < t
NumRowsFrom(t) == Cardinality({rows[i][1] : i \in {j \in DOMAIN rows : rows[j][1] >= t}})

\* C14: a request that passed authentication and read the table, with a
\* price for the current hour, at least one past price and fewer than 12
\* future prices, is answered with the advice text.
C14_HourlyAbsent12h ==
    (/\ op = "hourly"
     /\ resp.body \notin {"abort", "db_error"}
     /\ HasRowAt(resp.cur_ts)
     /\ HasRowBefore(resp.now_ts)
     /\ NumRowsFrom(resp.now_ts) < 12)
        => (resp.status = 200 /\ resp.body = "advice")

\* C16: when the chosen candidate is the 12h or the future one, the start
\* announced, cur_ts + best_hour * 3600, is the timestamp of the first of
\* the three future price points whose average was chosen.
C16_HourlyStartFidelity ==
    (HAdvice /\ resp.best[3] \in {"12h", "future"}) =>
        resp.best_ts = resp.future_prices[resp.best[2] + 1][1]

=============================================================================
